---- MODULE Spec2Model ----
(***************************************************************************)
(* Model of the gif-collector recording pipeline:                          *)
(*   src/src/recorder/WebInteractionRecorder.js  (recorder, flow executor) *)
(*   src/src/recorder/utils/ffmpeg.js            (two-pass GIF transcode)  *)
(*   src/src/config/settings.js                  (defaults)                *)
(* Every await of the JavaScript code is a point where other callbacks may *)
(* run; an action below is the synchronous code between two awaits.        *)
(***************************************************************************)
EXTENDS Integers, Sequences, FiniteSets, TLC

\* ---------------------------------------------------------------- bounds
MaxSteps == 2          \* longest flow.steps the model draws
MaxInit == 1           \* browsers chromium.launch can start in one behaviour
MaxClock == 1          \* distinct millisecond timestamps new Date() returns

\* ------------------------------------------------------- program constants
defaultStepDelay == 1500      \* settings.defaultStepDelay
settleDelay == 2000           \* page.waitForTimeout(2000), twice in recordUserFlow

Runs == {"r1", "r2"}   \* calls of recordUserFlow made on the one recorder
Earlier(r) == IF r = "r2" THEN {"r1"} ELSE {}   \* r2 names the later call

\* A JavaScript optional value: <<>> is undefined, <<v>> is the value v.
Absent == <<>>
Some(v) == <<v>>

\* JavaScript falsiness of an optional number: undefined and 0 are falsy.
Falsy(x) == x = Absent \/ x = Some(0)

\* a || b
JsOr(a, b) == IF Falsy(a) THEN b ELSE a

\* ------------------------------------------------------------- flow inputs
\* A step carries its action kind and its optional delay; "bogus" stands for
\* an action kind executeStep has no case for.
FlowStepDelays == {Absent, Some(0), Some(500)}
Qualities == {Absent, Some("low"), Some("medium"), Some("high")}

SeqsUpTo(S, n) == UNION {[1..k -> S] : k \in 0..n}

\* options.gif is either undefined or an object whose quality may be undefined
GifOptions == {Absent} \cup {Some([quality |-> q]) : q \in Qualities}

\* Flows run by two overlapping calls: every shape of step list, plain options.
Flows ==
    [steps : SeqsUpTo({[action |-> "click", delay |-> Absent],
                       [action |-> "bogus", delay |-> Some(0)]}, MaxSteps),
     options : {[stepDelay |-> Absent, gif |-> Absent]}]

\* Flows run by a single call: every combination of step delay, flow delay
\* and gif options.
SoloFlows ==
    [steps : SeqsUpTo({[action |-> "click", delay |-> Absent],
                       [action |-> "click", delay |-> Some(0)],
                       [action |-> "bogus", delay |-> Some(300)]}, MaxSteps),
     options : [stepDelay : FlowStepDelays, gif : {Absent}]
                 \cup [stepDelay : {Absent}, gif : GifOptions]]

\* Flows with a step of an unknown action kind between two valid steps.
UnknownFlows ==
    [steps : {<<[action |-> a, delay |-> Absent],
                [action |-> u, delay |-> d],
                [action |-> b, delay |-> Absent]>> :
                  a \in {"click", "scroll"}, u \in {"bogus", "tap"},
                  d \in FlowStepDelays, b \in {"click", "keypress"}},
     options : {[stepDelay |-> Absent, gif |-> Absent]}]

\* Flows of one 'wait' step: with or without a selector (possibly the empty
\* string), a numeric value, and options.timeout.
WaitFlows ==
    [steps : {<<[action |-> "wait", delay |-> Absent, selector |-> sel,
                 value |-> v, timeout |-> t]>> :
                  sel \in {Absent, Some(""), Some("#ready")},
                  v \in {Absent, Some(0), Some(250)},
                  t \in {Absent, Some(5000)}},
     options : {[stepDelay |-> Absent, gif |-> Absent]}]

\* Flows of one step whose options.gif supplies any subset of fps, scale,
\* quality, startTime and duration.
EncodingFlows ==
    [steps : {<<[action |-> "click", delay |-> Absent]>>},
     options : [stepDelay : {Absent},
                gif : {Absent} \cup
                      {Some(g) : g \in [fps : {Absent, Some(15)},
                                        scale : {Absent, Some("480:-1")},
                                        quality : {Absent, Some("high")},
                                        startTime : {Absent, Some(0), Some(2)},
                                        duration : {Absent, Some(3)}]}]]

\* values of process.env.HEADLESS: unset, 'true', 'false'
EnvHeadless == {Absent, Some("true"), Some("false")}

\* ------------------------------------------------------- flows request inputs
\* stepSchema: the action kinds it allows, and those whose selector is required
ValidActions ==
    {"click", "type", "hover", "scroll", "wait", "navigate", "screenshot", "select",
     "check", "uncheck", "keypress", "drag"}
SelectorActions == {"click", "type", "hover", "select", "check", "uncheck"}

MaxRequests == 2
FlowIds == {"a", "b"}

\* steps of request bodies: every allowed action kind and an unknown one, with
\* no selector, the empty string, or a selector
BodySteps ==
    [action : ValidActions \cup {"bogus"}, selector : {Absent, Some(""), Some("#a")}]
PairSteps ==
    {[action |-> "click", selector |-> Some("#a")],
     [action |-> "click", selector |-> Absent],
     [action |-> "wait", selector |-> Absent]}
BodyStepLists ==
    {<<>>} \cup {<<s>> : s \in BodySteps} \cup {<<s, t>> : s, t \in PairSteps}

\* request bodies: the id may be missing; name and baseUrl are well formed
Bodies ==
    [id : {Absent} \cup {Some(i) : i \in FlowIds}, name : {Some("n")},
     baseUrl : {Some("https://example.com")}, steps : BodyStepLists]

\* bodies of PUT requests: without an id, or with an id of their own and
\* two steps
PutBodies ==
    {b \in Bodies : b.id = Absent \/ (b.id = Some("b") /\ Len(b.steps) = 2)}

\* a flow of the shipped flows.json
ShippedFlow ==
    [id |-> "a", name |-> "n", baseUrl |-> "https://example.com",
     steps |-> <<[action |-> "wait", selector |-> Absent]>>]

\* Flows of one step whose options.gif.quality is a tier name, another string,
\* the empty string, or the name of a member every object inherits.
QualityFlows ==
    [steps : {<<[action |-> "click", delay |-> Absent]>>},
     options : [stepDelay : {Absent},
                gif : {Some([quality |-> Some(q)]) :
                          q \in {"low", "ultra", "", "constructor", "toString"}}]]

\* settings.defaultGifOptions
defaultGifOptions ==
    [fps |-> Some(10), scale |-> Some("800:-1"), quality |-> Some("medium")]

\* ------------------------------------------------------------------ state
VARIABLES
    browser,        \* this.browser: 0 is null, else the id of a launched browser
    page,           \* this.page: 0 is null, else the id of the browser owning it
    recording,      \* this.recording
    recordingId,    \* this.recordingId: 0 is null
    openBrowsers,   \* browsers launched and not yet closed (driver side)
    launched,       \* number of chromium.launch calls that succeeded
    initPc,         \* position of the initialize() call
    initOn,         \* browser the pending call of initialize() was issued on
    closePc,        \* position of the close() call
    closeOn,        \* browser the pending browser.close() was issued on
    flow,           \* the flowConfig handed to recordUserFlow
    callers,        \* the calls of recordUserFlow the environment makes
    clock,          \* new Date(), in milliseconds
    nextId,         \* uuidv4(): ids handed out so far
    pc,             \* per run: position in recordUserFlow
    idx,            \* per run: the loop variable i (1-based)
    target,         \* per run: page the pending driver call was issued on
    recordingInfo,  \* per run: the Recording Session object
    outcome,        \* per run: state of the promise recordUserFlow returned
    thrown,         \* per run: the error the promise rejected with
    log,            \* per run: history of what the run did, in order
    cv,             \* per run: the convertToGif call
    files,          \* paths that exist on disk
    handler,        \* the POST /:id/execute request being handled, if any
    config,         \* process.env.HEADLESS, the constructor option, this.headless
    api,            \* flows.json and the flows request last answered
    overlap,        \* a second initialize() call made while the first may be pending
    script          \* main() of the flow-runner script, if it drives the recorder

recorderVars == <<browser, page, recording, recordingId>>
serviceVars == <<config, api, overlap>>
driverVars == <<openBrowsers, launched>>
lifeVars == <<initPc, initOn, closePc, closeOn>>
runVars == <<pc, idx, target, recordingInfo, outcome, thrown, log, cv>>
vars ==
    <<recorderVars, driverVars, lifeVars, flow, callers, serviceVars, clock, nextId, runVars, files,
      handler, script>>

\* ----------------------------------------------------------------- errors
\* An Error object; the code reads its message field only.
Err(name, message) == [name |-> name, message |-> message]
NoError == Err("", "")
NotInitialized == Err("Error", "Browser not initialized. Call initialize() first.")
NullPage == Err("TypeError", "Cannot read properties of null")
DriverError(what) == Err("Error", what)
FfmpegError(pass) == Err("Error", "ffmpeg exited with code 1: " \o pass)

\* ------------------------------------------------------------------ paths
\* fileName is name_timestamp; one flow name is in play, so the timestamp
\* identifies the file name.
videoPathOf(ts) == <<"webm", ts>>
gifPathOf(ts) == <<"gif", ts>>
\* gifPath.replace('.gif', '_palette.png')
tempPalettePath(gifPath) == <<"_palette.png", gifPath[2]>>
\* the file page.video.stop() hands back, before it is renamed
rawVideoOf(r) == <<"raw", r>>

\* a convertToGif call: the two ffmpeg commands, what they were invoked with,
\* whether the running command found videoPath when it was spawned, and the
\* promise the call returned
NoCv ==
    [p1 |-> "none", p2 |-> "none", promise |-> "none", opts |-> Absent,
     colors |-> 0, dither |-> "", err |-> NoError, gifSize |-> "", value |-> Absent,
     input |-> FALSE, args1 |-> Absent, args2 |-> Absent]
\* trail is the history of the values assigned to status
NoInfo == [id |-> 0, status |-> "none", error |-> "", ts |-> 0, ended |-> FALSE,
           sizes |-> FALSE, trail |-> <<>>]

\* the handler of POST /:id/execute: where it is, whether it has created a
\* recorder, whether it has called recorder.close(), and the response status
\* it has sent (0: none yet)
NoRequest == [pc |-> "off", recorder |-> FALSE, closeCalled |-> FALSE, status |-> 0]
Request == [NoRequest EXCEPT !.pc = "received"]

newRecorder(flowSet, callerSet) ==
    /\ browser = 0 /\ page = 0 /\ recording = FALSE /\ recordingId = 0
    /\ openBrowsers = {} /\ launched = 0
    /\ initPc = "idle" /\ initOn = 0 /\ closePc = "idle" /\ closeOn = 0
    /\ flow \in flowSet
    /\ callers = callerSet
    /\ clock = 0 /\ nextId = 1
    /\ pc = [r \in Runs |-> "idle"]
    /\ idx = [r \in Runs |-> 0]
    /\ target = [r \in Runs |-> 0]
    /\ recordingInfo = [r \in Runs |-> NoInfo]
    /\ outcome = [r \in Runs |-> "none"]
    /\ thrown = [r \in Runs |-> NoError]
    /\ log = [r \in Runs |-> <<>>]
    /\ cv = [r \in Runs |-> NoCv]
    /\ files = {}

\* settings.headless: process.env.HEADLESS === 'true'
settingsHeadless(env) == env = Some("true")

\* this.headless = options.headless !== undefined ? options.headless
\*                                                : settings.headless
constructedHeadless(option, env) ==
    IF option # Absent THEN option[1] ELSE settingsHeadless(env)

\* the process environment, the option the constructor was given and the
\* field it assigned
newConfig(env, option) ==
    [HEADLESS |-> env, option |-> option,
     headless |-> constructedHeadless(option, env)]

\* the second initialize() call: where it is (off: never made), and the browser
\* its pending driver call was issued on
NoCall == [pc |-> "off", on |-> 0]

\* main() of run-flows.js: where it is, whether initialize() resolved, the
\* success field of each result pushed so far, and the code given to
\* process.exit
NoScript == [pc |-> "off", initialized |-> FALSE, results |-> <<>>, exit |-> Absent]

\* a flows request body before validation
NoBody == [id |-> Absent, name |-> Absent, baseUrl |-> Absent, steps |-> <<>>]

\* flows.json holding flowList, and no flows request answered yet
newApi(flowList) ==
    [flows |-> flowList, method |-> "", param |-> "", body |-> NoBody,
     status |-> 0, count |-> 0]

InitWith(flowSet, callerSet) ==
    /\ newRecorder(flowSet, callerSet)
    /\ handler = NoRequest
    /\ config = newConfig(Absent, Absent)
    /\ api = newApi(<<>>)
    /\ overlap = NoCall
    /\ script = NoScript

Init == InitWith(Flows, Runs)
InitSolo == InitWith(SoloFlows, {"r1"})
InitUnknown == InitWith(UnknownFlows, {"r1"})
InitWait == InitWith(WaitFlows, {"r1"})
InitEncoding == InitWith(EncodingFlows, {"r1"})
InitQuality == InitWith(QualityFlows, {"r1"})
\* a request for a stored flow has arrived; the recorder it will create
\* new WebInteractionRecorder({ headless: req.body.headless !== false })
InitExecute ==
    /\ newRecorder(Flows, {"r1"})
    /\ handler = Request
    /\ config = newConfig(Absent, Some(TRUE))
    /\ api = newApi(<<>>)
    /\ overlap = NoCall
    /\ script = NoScript

\* a recorder constructed under any HEADLESS setting, with or without the
\* headless option
InitHeadless ==
    /\ newRecorder(Flows, {"r1"})
    /\ handler = NoRequest
    /\ \E env \in EnvHeadless, option \in {Absent, Some(TRUE), Some(FALSE)} :
          config = newConfig(env, option)
    /\ api = newApi(<<>>)
    /\ overlap = NoCall
    /\ script = NoScript

\* the flows router over flows.json as shipped or empty; no recorder is in use
InitApi ==
    /\ newRecorder({[steps |-> <<>>, options |-> [stepDelay |-> Absent, gif |-> Absent]]},
                   {})
    /\ handler = NoRequest
    /\ config = newConfig(Absent, Absent)
    /\ \E flowList \in {<<>>, <<ShippedFlow>>} : api = newApi(flowList)
    /\ overlap = NoCall
    /\ script = NoScript

\* main() of run-flows.js has selected one or two flows to run; the recorder
\* it will create
InitScript ==
    /\ \E selected \in {{"r1"}, Runs} : newRecorder(Flows, selected)
    /\ handler = NoRequest
    /\ config = newConfig(Absent, Some(TRUE))
    /\ api = newApi(<<>>)
    /\ overlap = NoCall
    /\ script = [NoScript EXCEPT !.pc = "start"]

\* a recorder on which initialize() may be called a second time before an
\* earlier call has settled
InitOverlap ==
    /\ newRecorder({[steps |-> <<>>, options |-> [stepDelay |-> Absent, gif |-> Absent]]},
                   {})
    /\ handler = NoRequest
    /\ config = newConfig(Absent, Absent)
    /\ api = newApi(<<>>)
    /\ overlap = [NoCall EXCEPT !.pc = "idle"]
    /\ script = NoScript

\* ------------------------------------------------- initialize() and close()
\* close(), up to its await: clear the recording flag, then issue
\* browser.close() when a browser is held.
closeFlag(rec) == FALSE

\* mutant of initializeCall: the held browser is not closed first
initializeCallNoClose ==
    /\ initPc = "idle"
    /\ initPc' = "launching"
    /\ UNCHANGED <<recorderVars, driverVars, initOn, closePc, closeOn,
                   flow, callers, serviceVars, clock, nextId, runVars, files, handler, script>>

\* initialize(), up to its first await: this.close() when a browser is held,
\* chromium.launch otherwise
initializeEnter ==
    /\ initPc = "idle"
    /\ IF browser # 0
         THEN /\ recording' = closeFlag(recording)
              /\ initPc' = "closing"
              /\ initOn' = browser
         ELSE /\ initPc' = "launching"
              /\ UNCHANGED <<recording, initOn>>
    /\ UNCHANGED <<browser, page, recordingId, openBrowsers, launched, closePc, closeOn,
                   flow, callers, serviceVars, clock, nextId, runVars, files>>

\* a call of initialize() by the recorder's user
initializeCall == initializeEnter /\ UNCHANGED <<handler, script>>

\* initialize(): the awaited this.close() returns or raises.
initializeClosed ==
    /\ initPc = "closing"
    /\ \/ /\ openBrowsers' = openBrowsers \ {initOn}
          /\ browser' = 0
          /\ page' = 0
          /\ initPc' = "launching"
          /\ initOn' = 0
       \/ /\ initPc' = "idle"
          /\ initOn' = 0
          /\ UNCHANGED <<openBrowsers, browser, page>>
    /\ UNCHANGED <<recording, recordingId, launched, closePc, closeOn,
                   flow, callers, serviceVars, clock, nextId, runVars, files, handler, script>>

\* this.browser = await chromium.launch(...); then browser.newPage() is issued.
initializeLaunched ==
    /\ initPc = "launching"
    /\ \/ /\ launched < MaxInit
          /\ launched' = launched + 1
          /\ browser' = launched + 1
          /\ openBrowsers' = openBrowsers \cup {launched + 1}
          /\ initOn' = launched + 1
          /\ initPc' = "newPage"
       \/ /\ initPc' = "idle"
          /\ UNCHANGED <<launched, browser, openBrowsers, initOn>>
    /\ UNCHANGED <<page, recording, recordingId, closePc, closeOn,
                   flow, callers, serviceVars, clock, nextId, runVars, files, handler, script>>

\* this.page = await this.browser.newPage(); then the page is configured.
initializeNewPage ==
    /\ initPc = "newPage"
    /\ \/ /\ initOn \in openBrowsers
          /\ page' = initOn
          /\ initPc' = "configure"
       \/ /\ initPc' = "idle"
          /\ UNCHANGED page
    /\ initOn' = 0
    /\ UNCHANGED <<browser, recording, recordingId, driverVars, closePc, closeOn,
                   flow, callers, serviceVars, clock, nextId, runVars, files, handler, script>>

\* setViewportSize and setUserAgent return or raise; initialize() settles.
initializeSettle ==
    /\ initPc = "configure"
    /\ initPc' = "idle"
    /\ UNCHANGED <<recorderVars, driverVars, initOn, closePc, closeOn,
                   flow, callers, serviceVars, clock, nextId, runVars, files>>

initializeConfigured == initializeSettle /\ UNCHANGED <<handler, script>>

\* close(), up to its await
closeEnter ==
    /\ closePc = "idle"
    /\ recording' = closeFlag(recording)
    /\ IF browser # 0
         THEN closePc' = "closing" /\ closeOn' = browser
         ELSE UNCHANGED <<closePc, closeOn>>
    /\ UNCHANGED <<browser, page, recordingId, driverVars, initPc, initOn,
                   flow, callers, serviceVars, clock, nextId, runVars, files>>

\* a call of close() by the recorder's user
closeCall == closeEnter /\ UNCHANGED <<handler, script>>

\* await this.browser.close() returns (browser and page are nulled) or raises.
closeSettle(raised) ==
    /\ closePc = "closing"
    /\ closePc' = "idle"
    /\ closeOn' = 0
    /\ IF raised
         THEN UNCHANGED <<openBrowsers, browser, page>>
         ELSE /\ openBrowsers' = openBrowsers \ {closeOn}
              /\ browser' = 0
              /\ page' = 0
    /\ UNCHANGED <<recording, recordingId, launched, initPc, initOn,
                   flow, callers, serviceVars, clock, nextId, runVars, files>>

closeDone == (\E raised \in BOOLEAN : closeSettle(raised)) /\ UNCHANGED <<handler, script>>

\* ---------------------------------------- a second, overlapping initialize()
overlapRest ==
    <<recordingId, lifeVars, flow, callers, config, api, clock, nextId, runVars, files,
      handler, script>>

\* initialize() is called again, up to its first await
overlapCall ==
    /\ overlap.pc = "idle"
    /\ IF browser # 0
         THEN /\ recording' = closeFlag(recording)
              /\ overlap' = [pc |-> "closing", on |-> browser]
         ELSE /\ overlap' = [pc |-> "launching", on |-> 0]
              /\ UNCHANGED recording
    /\ UNCHANGED <<browser, page, driverVars, overlapRest>>

\* the awaited this.close() returns or raises
overlapClosed ==
    /\ overlap.pc = "closing"
    /\ \/ /\ openBrowsers' = openBrowsers \ {overlap.on}
          /\ browser' = 0
          /\ page' = 0
          /\ overlap' = [pc |-> "launching", on |-> 0]
       \/ /\ overlap' = [pc |-> "done", on |-> 0]
          /\ UNCHANGED <<openBrowsers, browser, page>>
    /\ UNCHANGED <<recording, launched, overlapRest>>

\* this.browser = await chromium.launch(...); the call is one launch more than
\* the MaxInit launches of the other calls
overlapLaunched ==
    /\ overlap.pc = "launching"
    /\ \/ /\ launched < MaxInit + 1
          /\ launched' = launched + 1
          /\ browser' = launched + 1
          /\ openBrowsers' = openBrowsers \cup {launched + 1}
          /\ overlap' = [pc |-> "newPage", on |-> launched + 1]
       \/ /\ overlap' = [pc |-> "done", on |-> 0]
          /\ UNCHANGED <<launched, browser, openBrowsers>>
    /\ UNCHANGED <<page, recording, overlapRest>>

\* this.page = await this.browser.newPage()
overlapNewPage ==
    /\ overlap.pc = "newPage"
    /\ \/ /\ overlap.on \in openBrowsers
          /\ page' = overlap.on
          /\ overlap' = [pc |-> "configure", on |-> 0]
       \/ /\ overlap' = [pc |-> "done", on |-> 0]
          /\ UNCHANGED page
    /\ UNCHANGED <<browser, recording, driverVars, overlapRest>>

\* setViewportSize and setUserAgent return or raise; the call settles
overlapConfigured ==
    /\ overlap.pc = "configure"
    /\ overlap' = [pc |-> "done", on |-> 0]
    /\ UNCHANGED <<recorderVars, driverVars, overlapRest>>

\* initialize() and close() called in any order, one initialize() overlapping
NextOverlap ==
    \/ initializeCall
    \/ initializeClosed
    \/ initializeLaunched
    \/ initializeNewPage
    \/ initializeConfigured
    \/ closeCall
    \/ closeDone
    \/ overlapCall
    \/ overlapClosed
    \/ overlapLaunched
    \/ overlapNewPage
    \/ overlapConfigured

\* ---------------------------------------------------------- recordUserFlow
\* const delay = step.delay || options.stepDelay || settings.defaultStepDelay
stepDelay(step, options) ==
    JsOr(JsOr(step.delay, options.stepDelay), Some(defaultStepDelay))[1]

\* the action kinds executeStep's switch has a case for
Supported ==
    {"click", "type", "hover", "scroll", "wait", "navigate", "screenshot",
     "select", "check", "uncheck", "keypress", "drag"}

\* mutant of catchInfo: the catch block forgets to set the status
catchInfoKeepsStatus(info, err) ==
    [info EXCEPT !.error = err.message, !.ended = TRUE]

\* the catch block's writes to recordingInfo
catchInfo(info, err) ==
    [info EXCEPT !.status = "failed", !.error = err.message, !.ended = TRUE,
                 !.trail = Append(@, "failed")]

\* recordingInfo.status = 'completed'; recordingInfo.endTime = ...
markCompleted(info) ==
    [info EXCEPT !.status = "completed", !.ended = TRUE,
                 !.trail = Append(@, "completed")]

\* the try block's last writes to recordingInfo: status, endTime and the two
\* sizes read with statSync
completedInfo(info) == [markCompleted(info) EXCEPT !.sizes = TRUE]

\* mutant of newInfo: every session is given the same identifier
newInfoFixedId(id, ts) ==
    [id |-> 1, status |-> "recording", error |-> "", ts |-> ts, ended |-> FALSE,
     sizes |-> FALSE, trail |-> <<"recording">>]

\* the Recording Session object recordUserFlow creates
newInfo(id, ts) ==
    [id |-> id, status |-> "recording", error |-> "", ts |-> ts, ended |-> FALSE,
     sizes |-> FALSE, trail |-> <<"recording">>]

Ev(kind, i, ms) == <<kind, i, ms>>

steps == flow.steps
options == flow.options

\* catch (error) { status = 'failed'; error = error.message; recording = false; throw }
CatchFrom(r, info, err, newlog) ==
    /\ recordingInfo' = [recordingInfo EXCEPT ![r] = catchInfo(info, err)]
    /\ recording' = FALSE
    /\ outcome' = [outcome EXCEPT ![r] = "rejected"]
    /\ thrown' = [thrown EXCEPT ![r] = err]
    /\ pc' = [pc EXCEPT ![r] = "done"]
    /\ log' = [log EXCEPT ![r] = newlog]
    /\ target' = [target EXCEPT ![r] = 0]
    /\ UNCHANGED idx

Catch(r, err, newlog) == CatchFrom(r, recordingInfo[r], err, newlog)

\* await this.page.<call>(...): reading a null this.page throws into the catch
\* block, otherwise the call is issued on the current page and the run suspends.
Invoke(r, next, newlog) ==
    IF page = 0
      THEN Catch(r, NullPage, newlog)
      ELSE /\ pc' = [pc EXCEPT ![r] = next]
           /\ target' = [target EXCEPT ![r] = page]
           /\ log' = [log EXCEPT ![r] = newlog]
           /\ UNCHANGED <<recordingInfo, recording, outcome, thrown, idx>>

\* mutant of StartStep: an action kind without a case throws
StartStepStrict(r, i, newlog) ==
    LET started == Append(newlog, Ev("stepStart", i, 0)) IN
    IF steps[i].action \in Supported /\ page # 0
      THEN /\ pc' = [pc EXCEPT ![r] = "step"]
           /\ idx' = [idx EXCEPT ![r] = i]
           /\ target' = [target EXCEPT ![r] = page]
           /\ log' = [log EXCEPT ![r] = started]
           /\ UNCHANGED <<recordingInfo, recording, outcome, thrown>>
      ELSE Catch(r, DriverError("step"), Append(started, Ev("stepFail", i, 0)))

\* executeStep, case 'wait': the bound of waitForSelector, or the duration of
\* waitForTimeout
waitSelectorTimeout == 30000
waitDefault == 1000
waitMs(step) ==
    IF step.selector \notin {Absent, Some("")}
      THEN JsOr(step.timeout, Some(waitSelectorTimeout))[1]
      ELSE JsOr(step.value, Some(waitDefault))[1]

\* the number of milliseconds the step's driver call is issued with, for the
\* action kinds that take one
issuedMs(step) == IF step.action = "wait" THEN waitMs(step) ELSE 0

\* the loop body's first half: await this.executeStep(steps[i])
StartStep(r, i, newlog) ==
    LET started == Append(newlog, Ev("stepStart", i, issuedMs(steps[i]))) IN
    IF steps[i].action \in Supported
      THEN IF page = 0
             THEN Catch(r, NullPage, Append(started, Ev("stepFail", i, 0)))
             ELSE /\ pc' = [pc EXCEPT ![r] = "step"]
                  /\ idx' = [idx EXCEPT ![r] = i]
                  /\ target' = [target EXCEPT ![r] = page]
                  /\ log' = [log EXCEPT ![r] = started]
                  /\ UNCHANGED <<recordingInfo, recording, outcome, thrown>>
      ELSE /\ pc' = [pc EXCEPT ![r] = "step"]
           /\ idx' = [idx EXCEPT ![r] = i]
           /\ target' = [target EXCEPT ![r] = 0]
           /\ log' = [log EXCEPT ![r] = started]
           /\ UNCHANGED <<recordingInfo, recording, outcome, thrown>>

\* mutant of loopNext: the loop steps by two
loopNextSkips(i) == IF i + 2 <= Len(steps) THEN i + 2 ELSE 0

\* for (let i = 0; i < steps.length; i++): the step after step i, if any
loopNext(i) == IF i < Len(steps) THEN i + 1 ELSE 0

\* mutant of Advance: capture is stopped right after the loop, without the
\* final wait
AdvanceNoFinalWait(r, i, newlog) ==
    IF loopNext(i) # 0
      THEN StartStep(r, loopNext(i), newlog)
      ELSE Invoke(r, "videoStop", newlog)

\* after the delay of step i (i = 0: before the loop): next step, or the final wait
Advance(r, i, newlog) ==
    IF loopNext(i) # 0
      THEN StartStep(r, loopNext(i), newlog)
      ELSE Invoke(r, "settle2", newlog)

recorderRest == <<browser, page, driverVars, lifeVars, flow, callers, serviceVars>>
lifeAndRest == <<recorderRest, handler, script>>

\* mutant of recordUserFlowEnter: the session id and the recording flag are
\* assigned before the page is looked at
recordUserFlowEnterAssignsFirst(r) ==
    /\ pc[r] = "idle"
    /\ r \in callers
    /\ \A q \in Earlier(r) : pc[q] # "idle"
    /\ recordingId' = nextId
    /\ nextId' = nextId + 1
    /\ recording' = TRUE
    /\ IF page = 0
         THEN /\ outcome' = [outcome EXCEPT ![r] = "rejected"]
              /\ thrown' = [thrown EXCEPT ![r] = NotInitialized]
              /\ pc' = [pc EXCEPT ![r] = "done"]
              /\ UNCHANGED <<clock, recordingInfo, target>>
         ELSE /\ \E t \in {clock, clock + 1} :
                    /\ t <= MaxClock
                    /\ nextId = 1 => t = clock
                    /\ clock' = t
              /\ recordingInfo' = [recordingInfo EXCEPT ![r] = newInfo(nextId, clock')]
              /\ pc' = [pc EXCEPT ![r] = "videoStart"]
              /\ target' = [target EXCEPT ![r] = page]
              /\ UNCHANGED <<outcome, thrown>>
    /\ UNCHANGED <<idx, log, cv, files, recorderRest>>

\* recordUserFlow(flowConfig), up to its first await (page.video.start)
recordUserFlowEnter(r) ==
    /\ pc[r] = "idle"
    /\ r \in callers
    /\ \A q \in Earlier(r) : pc[q] # "idle"
    /\ IF page = 0
         THEN /\ outcome' = [outcome EXCEPT ![r] = "rejected"]
              /\ thrown' = [thrown EXCEPT ![r] = NotInitialized]
              /\ pc' = [pc EXCEPT ![r] = "done"]
              /\ UNCHANGED <<recordingId, nextId, clock, recordingInfo, recording,
                             target>>
         ELSE /\ recordingId' = nextId
              /\ nextId' = nextId + 1
              /\ \E t \in {clock, clock + 1} :
                    /\ t <= MaxClock
                    /\ nextId = 1 => t = clock
                    /\ clock' = t
              /\ recordingInfo' = [recordingInfo EXCEPT ![r] = newInfo(nextId, clock')]
              /\ recording' = TRUE
              /\ pc' = [pc EXCEPT ![r] = "videoStart"]
              /\ target' = [target EXCEPT ![r] = page]
              /\ UNCHANGED <<outcome, thrown>>
    /\ UNCHANGED <<idx, log, cv, files, recorderRest>>

\* a call of recordUserFlow by the recorder's user
recordUserFlow(r) == recordUserFlowEnter(r) /\ UNCHANGED <<handler, script>>

\* page.video.start resolved; page.goto(baseUrl) is issued
captureStarted(r) ==
    /\ pc[r] = "videoStart"
    /\ target[r] \in openBrowsers
    /\ Invoke(r, "goto", Append(log[r], Ev("captureStart", 0, 0)))
    /\ UNCHANGED <<recordingId, nextId, clock, cv, files, lifeAndRest>>

\* mutant of navigated: the loop is entered right after the navigation
navigatedNoSettle(r) ==
    /\ pc[r] = "goto"
    /\ target[r] \in openBrowsers
    /\ Advance(r, 0, Append(log[r], Ev("goto", 0, 0)))
    /\ UNCHANGED <<recordingId, nextId, clock, cv, files, lifeAndRest>>

\* page.goto resolved; the first settle wait is issued
navigated(r) ==
    /\ pc[r] = "goto"
    /\ target[r] \in openBrowsers
    /\ Invoke(r, "settle1", Append(log[r], Ev("goto", 0, 0)))
    /\ UNCHANGED <<recordingId, nextId, clock, cv, files, lifeAndRest>>

\* waitForTimeout(2000) resolved; the loop is entered
settled(r) ==
    /\ pc[r] = "settle1"
    /\ target[r] \in openBrowsers
    /\ Advance(r, 0, Append(log[r], Ev("settle", 0, settleDelay)))
    /\ UNCHANGED <<recordingId, nextId, clock, cv, files, lifeAndRest>>

\* executeStep(step) resolved; the inter-step wait is issued
stepDone(r) ==
    /\ pc[r] = "step"
    /\ steps[idx[r]].action \in Supported => target[r] \in openBrowsers
    /\ Invoke(r, "delay", Append(log[r], Ev("stepOk", idx[r], 0)))
    /\ UNCHANGED <<recordingId, nextId, clock, cv, files, lifeAndRest>>

\* the inter-step wait resolved; next iteration or the final wait
delayDone(r) ==
    /\ pc[r] = "delay"
    /\ target[r] \in openBrowsers
    /\ Advance(r, idx[r],
               Append(log[r], Ev("delay", idx[r], stepDelay(steps[idx[r]], options))))
    /\ UNCHANGED <<recordingId, nextId, clock, cv, files, lifeAndRest>>

\* the final waitForTimeout(2000) resolved; page.video.stop() is issued
finalWaitDone(r) ==
    /\ pc[r] = "settle2"
    /\ target[r] \in openBrowsers
    /\ Invoke(r, "videoStop", Append(log[r], Ev("settle", 1, settleDelay)))
    /\ UNCHANGED <<recordingId, nextId, clock, cv, files, lifeAndRest>>

\* A pending driver call rejects: a wait only when its page went away, any
\* other call also by timeout or driver error. The catch block runs.
Timers == {"settle1", "delay", "settle2"}
DriverCalls == {"videoStart", "goto", "videoStop"} \cup Timers

driverFailed(r) ==
    /\ pc[r] \in DriverCalls
    /\ pc[r] \in Timers => target[r] \notin openBrowsers
    /\ Catch(r, DriverError(pc[r]), log[r])
    /\ UNCHANGED <<recordingId, nextId, clock, cv, files, lifeAndRest>>

\* mutant of stepFailed: executeStep logs the error and does not rethrow it
stepFailedSwallowed(r) ==
    /\ pc[r] = "step"
    /\ steps[idx[r]].action \in Supported
    /\ Invoke(r, "delay", Append(log[r], Ev("stepFail", idx[r], 0)))
    /\ UNCHANGED <<recordingId, nextId, clock, cv, files, lifeAndRest>>

\* executeStep(step) rejected (timeout or driver error): its catch rethrows,
\* and the catch block of recordUserFlow runs.
stepFailed(r) ==
    /\ pc[r] = "step"
    /\ steps[idx[r]].action \in Supported
    /\ Catch(r, DriverError("step"), Append(log[r], Ev("stepFail", idx[r], 0)))
    /\ UNCHANGED <<recordingId, nextId, clock, cv, files, lifeAndRest>>

\* ------------------------------------------------------------ convertToGif
\* mutant of qualitySettings: the low row carries the medium row's values
qualitySettingsLowIsMedium ==
    [low |-> [colors |-> 128, dither |-> "floyd_steinberg"],
     medium |-> [colors |-> 128, dither |-> "floyd_steinberg"],
     high |-> [colors |-> 256, dither |-> "floyd_steinberg"]]

\* const qualitySettings = { low: ..., medium: ..., high: ... }
qualitySettings ==
    [low |-> [colors |-> 64, dither |-> "sierra2_4a"],
     medium |-> [colors |-> 128, dither |-> "floyd_steinberg"],
     high |-> [colors |-> 256, dither |-> "floyd_steinberg"]]

\* const { quality = 'medium' } = options
qualityOf(opts) == IF opts.quality = Absent THEN "medium" ELSE opts.quality[1]

\* names every object literal answers through Object.prototype
ObjectPrototypeKeys ==
    {"constructor", "toString", "valueOf", "hasOwnProperty", "isPrototypeOf",
     "propertyIsEnumerable", "toLocaleString", "__proto__"}

\* what .colors and .dither read from a function or from Object.prototype:
\* undefined, written 0 for the number and as the text the template prints
inheritedMember == [colors |-> 0, dither |-> "undefined"]

\* const settings = qualitySettings[quality] || qualitySettings.medium
\* The lookup finds the three rows and, for an inherited name, a truthy
\* member of Object.prototype; only a lookup that finds nothing is replaced.
settingsOf(opts) ==
    IF qualityOf(opts) \in DOMAIN qualitySettings
      THEN qualitySettings[qualityOf(opts)]
    ELSE IF qualityOf(opts) \in ObjectPrototypeKeys
      THEN inheritedMember
      ELSE qualitySettings["medium"]

\* a property of an options object: undefined when the object has none
Field(opts, name) == IF name \in DOMAIN opts THEN opts[name] ELSE Absent

\* const { fps = 10, scale = '800:-1', startTime = 0, duration = null } = options
ffmpegDefaultFps == 10
ffmpegDefaultScale == "800:-1"
fpsOf(opts) ==
    IF Field(opts, "fps") = Absent THEN ffmpegDefaultFps ELSE opts.fps[1]
scaleOf(opts) ==
    IF Field(opts, "scale") = Absent THEN ffmpegDefaultScale ELSE opts.scale[1]
startTimeOf(opts) ==
    IF Field(opts, "startTime") = Absent THEN 0 ELSE opts.startTime[1]

\* if (startTime > 0) command.seekInput(startTime)
seekOf(opts) == IF startTimeOf(opts) > 0 THEN Some(startTimeOf(opts)) ELSE Absent

\* if (duration) command.duration(duration)
durationOf(opts) ==
    IF Falsy(Field(opts, "duration")) THEN Absent ELSE opts.duration

\* what an ffmpeg command of convertToGif is built with: .fps(fps), the scale
\* filter, seekInput and duration
passArgs(opts) ==
    [fps |-> fpsOf(opts), scale |-> scaleOf(opts), seek |-> seekOf(opts),
     duration |-> durationOf(opts)]

\* options.gif || settings.defaultGifOptions
gifOptionsOf(opt) == IF opt.gif = Absent THEN defaultGifOptions ELSE opt.gif[1]

\* palettegen=max_colors=${settings.colors}
firstPassColors(opts) == settingsOf(opts).colors
\* paletteuse=dither=${settings.dither}
secondPassDither(opts) == settingsOf(opts).dither

myGif(r) == gifPathOf(recordingInfo[r].ts)
myVideo(r) == videoPathOf(recordingInfo[r].ts)
myPalette(r) == tempPalettePath(myGif(r))

\* mutant of startConvert: both passes are run at once
startConvertBothPasses(opts) ==
    [p1 |-> "running", p2 |-> "running", promise |-> "pending", opts |-> Some(opts),
     colors |-> firstPassColors(opts), dither |-> secondPassDither(opts),
     err |-> NoError, gifSize |-> "", value |-> Absent, input |-> TRUE,
     args1 |-> Some(passArgs(opts)), args2 |-> Some(passArgs(opts))]

\* new Promise(...): the first pass is built and run; the second pass does not
\* exist yet
startConvert(opts) ==
    [p1 |-> "running", p2 |-> "none", promise |-> "pending", opts |-> Some(opts),
     colors |-> firstPassColors(opts), dither |-> "", err |-> NoError,
     gifSize |-> "", value |-> Absent, input |-> TRUE,
     args1 |-> Some(passArgs(opts)), args2 |-> Absent]

\* mutant of startSecondPass: the second pass is built without the trim window
startSecondPassNoTrim(c, found) ==
    [c EXCEPT !.p1 = "ended", !.p2 = "running", !.input = found,
              !.dither = secondPassDither(c.opts[1]),
              !.args2 = Some([passArgs(c.opts[1]) EXCEPT !.seek = Absent,
                                                          !.duration = Absent])]

\* the first pass 'end' handler builds and runs the second pass, which opens
\* videoPath again
startSecondPass(c, found) ==
    [c EXCEPT !.p1 = "ended", !.p2 = "running", !.input = found,
              !.dither = secondPassDither(c.opts[1]),
              !.args2 = Some(passArgs(c.opts[1]))]

\* mutant of rejectWith: the error handler logs and does not reject
rejectWithNothing(c, err) == c

\* reject(err)
rejectWith(c, err) == [c EXCEPT !.promise = "rejected", !.err = err]

\* resolve(gifPath)
resolveWith(c) == [c EXCEPT !.promise = "resolved"]

\* page.video.stop() resolved; the file is renamed to videoPath and
\* convertToGif starts its first pass, or renameSync throws.
captureStopped(r) ==
    /\ pc[r] = "videoStop"
    /\ target[r] \in openBrowsers
    /\ \/ /\ files' = files \cup {myVideo(r)}
          /\ cv' = [cv EXCEPT ![r] = startConvert(gifOptionsOf(options))]
          /\ pc' = [pc EXCEPT ![r] = "convert"]
          /\ log' = [log EXCEPT ![r] =
                       log[r] \o <<Ev("captureStop", 0, 0), Ev("convert", 0, 0)>>]
          /\ target' = [target EXCEPT ![r] = 0]
          /\ UNCHANGED <<recordingInfo, recording, outcome, thrown, idx>>
       \/ /\ files' = files \cup {rawVideoOf(r)}
          /\ Catch(r, DriverError("ENOENT: rename"),
                   Append(log[r], Ev("captureStop", 0, 0)))
          /\ UNCHANGED cv
    /\ UNCHANGED <<recordingId, nextId, clock, lifeAndRest>>

convertVarsRest ==
    <<recorderVars, clock, nextId, pc, idx, target, recordingInfo, outcome, thrown,
      log, lifeAndRest>>

\* first pass 'end': the palette is on disk and the second pass is started
pass1End(r) ==
    /\ cv[r].p1 = "running"
    /\ files' = files \cup {myPalette(r)}
    /\ cv' = [cv EXCEPT ![r] = startSecondPass(@, myVideo(r) \in files)]
    /\ UNCHANGED convertVarsRest

\* first pass 'error': reject(err); ffmpeg may have created its output file
pass1Error(r) ==
    /\ cv[r].p1 = "running"
    /\ \E partial \in BOOLEAN :
          files' = IF partial THEN files \cup {myPalette(r)} ELSE files
    /\ cv' = [cv EXCEPT ![r] =
                rejectWith([@ EXCEPT !.p1 = "failed"], FfmpegError("palettegen"))]
    /\ UNCHANGED convertVarsRest

\* if (fs.existsSync(tempPalettePath)) fs.unlinkSync(tempPalettePath)
unlinkPalette(fileSet, palette) == fileSet \ {palette}

\* What is at gifPath when the second pass reports 'end': a gif with frames,
\* an empty file, or nothing. The handler does not decide this.
GifOutcomes == {"data", "empty", "missing"}

\* the file system after the second pass and the handler's palette cleanup
afterSecondPass(fileSet, palette, gifPath, out) ==
    IF out = "missing"
      THEN unlinkPalette(fileSet, palette) \ {gifPath}
      ELSE unlinkPalette(fileSet, palette) \cup {gifPath}

\* the 'end' handler after the cleanup: statSync(gifPath) throws out of the
\* handler when the file is missing, so the promise is never settled;
\* otherwise the size is only logged and resolve(gifPath) is called.
endHandler(c, gifPath, out) ==
    IF out = "missing"
      THEN [c EXCEPT !.p2 = "ended"]
      ELSE [resolveWith([c EXCEPT !.p2 = "ended"])
                EXCEPT !.gifSize = out, !.value = Some(gifPath)]

\* second pass 'end': the palette is removed, the gif is examined,
\* resolve(gifPath)
pass2End(r) ==
    /\ cv[r].p2 = "running"
    /\ cv[r].input
    /\ \E out \in GifOutcomes :
          /\ files' = afterSecondPass(files, myPalette(r), myGif(r), out)
          /\ cv' = [cv EXCEPT ![r] = endHandler(@, myGif(r), out)]
    /\ UNCHANGED convertVarsRest

\* second pass 'error': the palette is removed, reject(err)
pass2Error(r) ==
    /\ cv[r].p2 = "running"
    /\ \E partial \in BOOLEAN :
          files' = IF partial THEN unlinkPalette(files, myPalette(r)) \cup {myGif(r)}
                              ELSE unlinkPalette(files, myPalette(r))
    /\ cv' = [cv EXCEPT ![r] =
                rejectWith([@ EXCEPT !.p2 = "failed"], FfmpegError("paletteuse"))]
    /\ UNCHANGED convertVarsRest

\* await convertToGif(...) returns into recordUserFlow: the success tail of the
\* try block, or the catch block. In the tail the status is set to 'completed'
\* before statSync reads the two artifacts; statSync throws into the catch
\* block when one of them is gone.
convertReturned(r) ==
    /\ pc[r] = "convert"
    /\ cv[r].promise \in {"resolved", "rejected"}
    /\ IF cv[r].promise = "rejected"
         THEN Catch(r, cv[r].err, log[r])
         ELSE IF {myVideo(r), myGif(r)} \subseteq files
                THEN /\ recordingInfo' =
                          [recordingInfo EXCEPT ![r] = completedInfo(@)]
                     /\ recording' = FALSE
                     /\ outcome' = [outcome EXCEPT ![r] = "resolved"]
                     /\ pc' = [pc EXCEPT ![r] = "done"]
                     /\ UNCHANGED <<thrown, log, idx, target>>
                ELSE CatchFrom(r, markCompleted(recordingInfo[r]),
                               DriverError("ENOENT: stat"), log[r])
    /\ UNCHANGED <<recordingId, nextId, clock, cv, files, lifeAndRest>>

\* ---------------------------------------------------------- specification
Next ==
    \/ initializeCall
    \/ initializeClosed
    \/ initializeLaunched
    \/ initializeNewPage
    \/ initializeConfigured
    \/ closeCall
    \/ closeDone
    \/ \E r \in Runs :
          \/ recordUserFlow(r)
          \/ captureStarted(r)
          \/ navigated(r)
          \/ settled(r)
          \/ stepDone(r)
          \/ delayDone(r)
          \/ finalWaitDone(r)
          \/ driverFailed(r)
          \/ stepFailed(r)
          \/ captureStopped(r)
          \/ pass1End(r)
          \/ pass1Error(r)
          \/ pass2End(r)
          \/ pass2Error(r)
          \/ convertReturned(r)

\* ------------------------------------------ POST /api/flows/:id/execute
recorderState ==
    <<recorderVars, driverVars, lifeVars, flow, callers, serviceVars, clock, nextId,
      runVars, files>>

\* The request is handled up to its first await: 404 when no flow has the id;
\* otherwise a recorder is created and initialize() is called on it.
executeRequest ==
    /\ handler.pc = "received"
    /\ \/ /\ handler' = [handler EXCEPT !.pc = "finished", !.status = 404]
          /\ UNCHANGED recorderState
       \/ /\ initializeEnter
          /\ handler' = [handler EXCEPT !.pc = "initialize", !.recorder = TRUE]
    /\ UNCHANGED script

\* await recorder.initialize() resolves
executeInitialized ==
    /\ handler.pc = "initialize"
    /\ initializeSettle
    /\ handler' = [handler EXCEPT !.pc = "record"]
    /\ UNCHANGED script

\* initialize() rejects out of its page configuration: the catch block
\* answers 500
executeInitializeRaised ==
    /\ handler.pc = "initialize"
    /\ initializeSettle
    /\ handler' = [handler EXCEPT !.pc = "finally", !.status = 500]
    /\ UNCHANGED script

\* initialize() has rejected out of chromium.launch or newPage: the catch
\* block answers 500 and the finally block calls recorder.close()
executeInitializeRejected ==
    /\ handler.pc = "initialize"
    /\ initPc = "idle"
    /\ closeEnter
    /\ handler' = [handler EXCEPT !.pc = "close", !.status = 500,
                                  !.closeCalled = TRUE]
    /\ UNCHANGED script

\* finally { if (recorder) await recorder.close() }
executeFinally ==
    /\ handler.pc = "finally"
    /\ closeEnter
    /\ handler' = [handler EXCEPT !.pc = "close", !.closeCalled = TRUE]
    /\ UNCHANGED script

\* const result = await recorder.recordUserFlow(flow), up to the await
executeRecord ==
    /\ handler.pc = "record"
    /\ recordUserFlowEnter("r1")
    /\ handler' = [handler EXCEPT !.pc = "run"]
    /\ UNCHANGED script

\* recordUserFlow has settled: res.json(...) or the catch block's 500, then
\* the finally block calls recorder.close()
executeSettled ==
    /\ handler.pc = "run"
    /\ pc["r1"] = "done"
    /\ closeEnter
    /\ handler' = [handler EXCEPT
                      !.pc = "close",
                      !.status = IF outcome["r1"] = "resolved" THEN 200 ELSE 500,
                      !.closeCalled = TRUE]
    /\ UNCHANGED script

\* await recorder.close() returns, and the handler is finished; or it raises
\* out of the finally block, and the handler's promise rejects
executeClosed ==
    /\ handler.pc = "close"
    /\ \/ /\ closePc = "idle"
          /\ UNCHANGED recorderState
          /\ handler' = [handler EXCEPT !.pc = "finished"]
       \/ /\ closeSettle(FALSE)
          /\ handler' = [handler EXCEPT !.pc = "finished"]
       \/ /\ closeSettle(TRUE)
          /\ handler' = [handler EXCEPT !.pc = "crashed"]
    /\ UNCHANGED script

NextExecute ==
    \/ executeRequest
    \/ initializeLaunched
    \/ initializeNewPage
    \/ executeInitialized
    \/ executeInitializeRaised
    \/ executeInitializeRejected
    \/ executeFinally
    \/ executeRecord
    \/ executeSettled
    \/ executeClosed
    \/ \E r \in Runs :
          \/ captureStarted(r)
          \/ navigated(r)
          \/ settled(r)
          \/ stepDone(r)
          \/ delayDone(r)
          \/ finalWaitDone(r)
          \/ driverFailed(r)
          \/ stepFailed(r)
          \/ captureStopped(r)
          \/ pass1End(r)
          \/ pass1Error(r)
          \/ pass2End(r)
          \/ pass2Error(r)
          \/ convertReturned(r)

\* ------------------------------------------------- scripts/run-flows.js main
\* flowsToRun[i] is run by the i-th call of recordUserFlow
runOf(i) == IF i = 1 THEN "r1" ELSE "r2"
flowsToRun == Cardinality(callers)

\* new WebInteractionRecorder({ headless }); await recorder.initialize()
scriptStart ==
    /\ script.pc = "start"
    /\ initializeEnter
    /\ script' = [script EXCEPT !.pc = "initialize"]
    /\ UNCHANGED handler

\* initialize() resolves and the loop is entered, or it rejects out of the
\* page configuration: the catch block calls process.exit(1)
scriptInitialized ==
    /\ script.pc = "initialize"
    /\ initializeSettle
    /\ \/ script' = [script EXCEPT !.pc = "loop", !.initialized = TRUE]
       \/ script' = [script EXCEPT !.pc = "exited", !.exit = Some(1)]
    /\ UNCHANGED handler

\* initialize() has rejected out of chromium.launch or newPage: process.exit(1)
scriptInitializeRejected ==
    /\ script.pc = "initialize"
    /\ initPc = "idle"
    /\ script' = [script EXCEPT !.pc = "exited", !.exit = Some(1)]
    /\ UNCHANGED <<recorderState, handler>>

\* runFlow(recorder, flow, i, total), up to await recorder.recordUserFlow(flow)
scriptRunFlow ==
    /\ script.pc = "loop"
    /\ recordUserFlowEnter(runOf(Len(script.results) + 1))
    /\ script' = [script EXCEPT !.pc = "run"]
    /\ UNCHANGED handler

\* process.exit(failed > 0 ? 1 : 0)
exitCode(results) ==
    IF \E k \in 1..Len(results) : ~results[k] THEN 1 ELSE 0

\* recordUserFlow has settled: runFlow returns success or failure and the
\* result is pushed; then the 2000 ms pause before the next flow, or, after
\* the last flow, the finally block calls recorder.close()
scriptFlowSettled ==
    /\ script.pc = "run"
    /\ pc[runOf(Len(script.results) + 1)] = "done"
    /\ LET pushed == Append(script.results,
                            outcome[runOf(Len(script.results) + 1)] = "resolved")
       IN  IF Len(pushed) < flowsToRun
             THEN /\ script' = [script EXCEPT !.pc = "pause", !.results = pushed]
                  /\ UNCHANGED recorderState
             ELSE /\ script' = [script EXCEPT !.pc = "close", !.results = pushed]
                  /\ closeEnter
    /\ UNCHANGED handler

\* the pause between two flows is over
scriptPaused ==
    /\ script.pc = "pause"
    /\ script' = [script EXCEPT !.pc = "loop"]
    /\ UNCHANGED <<recorderState, handler>>

\* await recorder.close() returns: the summary is printed and the process
\* exits with the code of the results; or close() raises out of the finally
\* block, main() rejects and its catch handler calls process.exit(1)
scriptClosed ==
    /\ script.pc = "close"
    /\ \/ /\ closePc = "idle"
          /\ UNCHANGED recorderState
          /\ script' = [script EXCEPT !.pc = "exited",
                                      !.exit = Some(exitCode(script.results))]
       \/ /\ closeSettle(FALSE)
          /\ script' = [script EXCEPT !.pc = "exited",
                                      !.exit = Some(exitCode(script.results))]
       \/ /\ closeSettle(TRUE)
          /\ script' = [script EXCEPT !.pc = "exited", !.exit = Some(1)]
    /\ UNCHANGED handler

NextScript ==
    \/ scriptStart
    \/ initializeLaunched
    \/ initializeNewPage
    \/ scriptInitialized
    \/ scriptInitializeRejected
    \/ scriptRunFlow
    \/ scriptFlowSettled
    \/ scriptPaused
    \/ scriptClosed
    \/ \E r \in Runs :
          \/ captureStarted(r)
          \/ navigated(r)
          \/ settled(r)
          \/ stepDone(r)
          \/ delayDone(r)
          \/ finalWaitDone(r)
          \/ driverFailed(r)
          \/ stepFailed(r)
          \/ captureStopped(r)
          \/ pass1End(r)
          \/ pass1Error(r)
          \/ pass2End(r)
          \/ pass2Error(r)
          \/ convertReturned(r)

\* The repository's cleanup script, run by an operator while the recorder is
\* at work: rm -f output/videos/*.webm output/gifs/*.gif
cleanupOutput ==
    /\ \E f \in files : f[1] \in {"webm", "raw", "gif"}
    /\ files' = {f \in files : f[1] \notin {"webm", "raw", "gif"}}
    /\ UNCHANGED <<recorderVars, driverVars, lifeVars, flow, callers, serviceVars, clock, nextId,
                   runVars, handler, script>>

NextWithCleanup == Next \/ cleanupOutput

\* ------------------------------------------------------------ flows router
\* Joi.string(): a string, and not the empty one
JoiString(x) == x # Absent /\ x[1] # ""

\* Joi.string().uri()
JoiUri(x) == JoiString(x) /\ x[1] \in {"https://example.com"}

\* mutant of stepSchema: the selector is optional for every action kind
stepSchemaSelectorOptional(step) ==
    /\ step.action \in ValidActions
    /\ step.selector = Absent \/ JoiString(step.selector)

\* stepSchema.validate(step) reports no error
stepSchema(step) ==
    /\ step.action \in ValidActions
    /\ IF step.action \in SelectorActions
         THEN JoiString(step.selector)
         ELSE step.selector = Absent \/ JoiString(step.selector)

\* flowSchema.validate(body) reports no error
flowSchema(body) ==
    /\ JoiString(body.id)
    /\ JoiString(body.name)
    /\ JoiUri(body.baseUrl)
    /\ Len(body.steps) >= 1
    /\ \A k \in 1..Len(body.steps) : stepSchema(body.steps[k])

\* the value flowSchema.validate returns for a valid body
validated(body) ==
    [id |-> body.id[1], name |-> body.name[1], baseUrl |-> body.baseUrl[1],
     steps |-> body.steps]

\* data.flows.findIndex(f => f.id === id): 0 when there is none
findIndex(flowList, id) ==
    IF \E k \in 1..Len(flowList) : flowList[k].id = id
      THEN CHOOSE k \in 1..Len(flowList) :
              /\ flowList[k].id = id
              /\ \A j \in 1..(k - 1) : flowList[j].id # id
      ELSE 0

\* data.flows.splice(k, 1)
splice(flowList, k) ==
    [j \in 1..(Len(flowList) - 1) |-> IF j < k THEN flowList[j] ELSE flowList[j + 1]]

\* the response is sent; flows.json holds flowList
respond(method, param, body, status, flowList) ==
    /\ api' = [flows |-> flowList, method |-> method, param |-> param, body |-> body,
               status |-> status, count |-> api.count + 1]
    /\ UNCHANGED <<recorderVars, driverVars, lifeVars, flow, callers, config, overlap,
                   clock, nextId, runVars, files, handler, script>>

\* router.get('/') and router.get('/:id')
getFlows ==
    /\ api.count < MaxRequests
    /\ respond("GET", "", NoBody, 200, api.flows)

getFlow ==
    /\ api.count < MaxRequests
    /\ \E id \in FlowIds :
          IF findIndex(api.flows, id) = 0
            THEN respond("GET", id, NoBody, 404, api.flows)
            ELSE respond("GET", id, NoBody, 200, api.flows)

\* mutant of postFlow: the id is not looked up before the flow is pushed
postFlowNoLookup ==
    /\ api.count < MaxRequests
    /\ \E body \in Bodies :
          IF ~flowSchema(body)
            THEN respond("POST", "", body, 400, api.flows)
          ELSE \/ respond("POST", "", body, 500, api.flows)
               \/ respond("POST", "", body, 201, Append(api.flows, validated(body)))

\* router.post('/'); writeFlows returns false (500) or true
postFlow ==
    /\ api.count < MaxRequests
    /\ \E body \in Bodies :
          IF ~flowSchema(body)
            THEN respond("POST", "", body, 400, api.flows)
          ELSE IF findIndex(api.flows, body.id[1]) # 0
            THEN respond("POST", "", body, 409, api.flows)
          ELSE \/ respond("POST", "", body, 500, api.flows)
               \/ respond("POST", "", body, 201, Append(api.flows, validated(body)))

\* mutant of putFlow: a flow that is not found is added, and still answered 404
putFlowUpserts ==
    /\ api.count < MaxRequests
    /\ \E id \in FlowIds, body \in PutBodies :
          LET merged == [body EXCEPT !.id = Some(id)]
              flowIndex == findIndex(api.flows, id)
          IN  IF ~flowSchema(merged)
                THEN respond("PUT", id, body, 400, api.flows)
              ELSE IF flowIndex = 0
                THEN respond("PUT", id, body, 404, Append(api.flows, validated(merged)))
              ELSE \/ respond("PUT", id, body, 500, api.flows)
                   \/ respond("PUT", id, body, 200,
                              [api.flows EXCEPT ![flowIndex] = validated(merged)])

\* router.put('/:id'): the body is validated with its id replaced by the
\* route parameter
putFlow ==
    /\ api.count < MaxRequests
    /\ \E id \in FlowIds, body \in PutBodies :
          LET merged == [body EXCEPT !.id = Some(id)]
              flowIndex == findIndex(api.flows, id)
          IN  IF ~flowSchema(merged)
                THEN respond("PUT", id, body, 400, api.flows)
              ELSE IF flowIndex = 0
                THEN respond("PUT", id, body, 404, api.flows)
              ELSE \/ respond("PUT", id, body, 500, api.flows)
                   \/ respond("PUT", id, body, 200,
                              [api.flows EXCEPT ![flowIndex] = validated(merged)])

\* router.delete('/:id')
deleteFlow ==
    /\ api.count < MaxRequests
    /\ \E id \in FlowIds :
          LET flowIndex == findIndex(api.flows, id)
          IN  IF flowIndex = 0
                THEN respond("DELETE", id, NoBody, 404, api.flows)
              ELSE \/ respond("DELETE", id, NoBody, 500, api.flows)
                   \/ respond("DELETE", id, NoBody, 200, splice(api.flows, flowIndex))

\* router.post('/:id/execute') for an id no stored flow has: 404 is returned
\* before a recorder is created
executeMissing ==
    /\ api.count < MaxRequests
    /\ \E id \in FlowIds :
          /\ findIndex(api.flows, id) = 0
          /\ respond("EXECUTE", id, NoBody, 404, api.flows)

NextApi ==
    \/ getFlows
    \/ getFlow
    \/ postFlow
    \/ putFlow
    \/ deleteFlow
    \/ executeMissing

Spec == Init /\ [][Next]_vars
SpecCleanup == InitSolo /\ [][NextWithCleanup]_vars
SpecExecute == InitExecute /\ [][NextExecute]_vars
SpecSolo == InitSolo /\ [][Next]_vars
SpecUnknown == InitUnknown /\ [][Next]_vars
SpecWait == InitWait /\ [][Next]_vars
SpecEncoding == InitEncoding /\ [][Next]_vars
SpecQuality == InitQuality /\ [][Next]_vars
SpecOverlap == InitOverlap /\ [][NextOverlap]_vars
SpecHeadless == InitHeadless /\ [][Next]_vars
SpecApi == InitApi /\ [][NextApi]_vars
SpecScript == InitScript /\ [][NextScript]_vars

\* One call of recordUserFlow in which every ffmpeg command that was run
\* eventually emits 'end' or 'error'.
SpecConvertFair ==
    /\ SpecSolo
    /\ \A r \in Runs : WF_vars(pass1End(r) \/ pass1Error(r))
    /\ \A r \in Runs : WF_vars(pass2End(r) \/ pass2Error(r))

\* ------------------------------------------------------------------ claims
InFlight(r) == pc[r] \notin {"idle", "done"}
HasSession(r) == recordingInfo[r].id # 0
Positions(r) == 1..Len(log[r])
IsPrefix(a, b) == Len(a) <= Len(b) /\ \A k \in 1..Len(a) : a[k] = b[k]

\* C1: once the promise of a recordUserFlow call that passed the
\* initialization check has settled, the Recording Session's status is
\* 'completed' or 'failed', never 'recording'; when the promise rejected, the
\* status is 'failed' and the error field is the non-empty message of the
\* error the promise rejected with.
C1_SettledSessionIsTerminal ==
    \A r \in Runs :
        (outcome[r] # "none" /\ HasSession(r)) =>
            /\ recordingInfo[r].status \in {"completed", "failed"}
            /\ outcome[r] = "rejected" =>
                  /\ recordingInfo[r].status = "failed"
                  /\ recordingInfo[r].error = thrown[r].message
                  /\ recordingInfo[r].error # ""

C1_Witness ==
    \E r, q \in Runs :
        /\ outcome[r] = "rejected" /\ HasSession(r)
        /\ recordingInfo[r].status = "failed"
        /\ outcome[q] = "resolved"

\* C2: within one run the executeStep invocations are steps 1..k of the flow
\* in declaration order, each invoked once; step i+1 is invoked only right
\* after step i succeeded and the inter-step wait of step i resolved.
StepStarts(r) == SelectSeq(log[r], LAMBDA e : e[1] = "stepStart")

C2_StepsInDeclarationOrder ==
    \A r \in Runs :
        /\ Len(StepStarts(r)) <= Len(steps)
        /\ \A k \in 1..Len(StepStarts(r)) : StepStarts(r)[k][2] = k
        /\ \A p \in Positions(r) :
              (log[r][p][1] = "stepStart" /\ log[r][p][2] > 1) =>
                  /\ p > 2
                  /\ log[r][p - 2] = Ev("stepOk", log[r][p][2] - 1, 0)
                  /\ log[r][p - 1][1] = "delay"
                  /\ log[r][p - 1][2] = log[r][p][2] - 1

C2_Witness ==
    \E r \in Runs : Len(StepStarts(r)) = 2 /\ outcome[r] = "resolved"

\* C3: when executeStep fails for step i, nothing follows in that run: no
\* later step, no inter-step wait, no capture stop, no transcoding, and
\* recordUserFlow has rejected.
C3_StepFailureAborts ==
    \A r \in Runs : \A p \in Positions(r) :
        log[r][p][1] = "stepFail" =>
            /\ p = Len(log[r])
            /\ pc[r] = "done"
            /\ outcome[r] = "rejected"
            /\ cv[r].p1 = "none"
            /\ \A q \in Positions(r) : log[r][q][1] \notin {"captureStop", "convert"}

C3_Witness ==
    \E r \in Runs :
        /\ Len(steps) = 2
        /\ Len(log[r]) > 0
        /\ log[r][Len(log[r])] = Ev("stepFail", 1, 0)
        /\ outcome[r] = "rejected"

\* C4: the events of a run occur in the order capture start, navigation,
\* settle wait, then for each step its start, success and inter-step wait,
\* then the final settle wait, capture stop and transcoding; a run that
\* resolves has performed all of them.
Kinds(s) == [k \in 1..Len(s) |-> <<s[k][1], s[k][2]>>]
StepEvents(i) == <<<<"stepStart", i>>, <<"stepOk", i>>, <<"delay", i>>>>
RECURSIVE LoopEvents(_)
LoopEvents(n) == IF n = 0 THEN <<>> ELSE LoopEvents(n - 1) \o StepEvents(n)
ExpectedOrder ==
    <<<<"captureStart", 0>>, <<"goto", 0>>, <<"settle", 0>>>>
        \o LoopEvents(Len(steps))
        \o <<<<"settle", 1>>, <<"captureStop", 0>>, <<"convert", 0>>>>
Performed(r) == Kinds(SelectSeq(log[r], LAMBDA e : e[1] # "stepFail"))

C4_EventsInCaptureWindow ==
    \A r \in Runs :
        /\ IsPrefix(Performed(r), ExpectedOrder)
        /\ outcome[r] = "resolved" => Performed(r) = ExpectedOrder

C4_Witness ==
    \E r \in Runs : outcome[r] = "resolved" /\ Len(steps) = 2

\* C5: a second recordUserFlow call made while an earlier call has not
\* settled is rejected and starts nothing, so at most one run is in flight on
\* the recorder and the recorder's recordingId stays that of the run in flight.
C5_SecondCallRejected ==
    /\ Cardinality({r \in Runs : InFlight(r)}) <= 1
    /\ \A r \in Runs : InFlight(r) => recordingId = recordingInfo[r].id

\* C6: the wait applied after step i is step.delay when defined (0 included),
\* else flow.options.stepDelay when defined (0 included), else the default.
nullish(a, b) == IF a = Absent THEN b ELSE a
claimedDelay(step, opt) ==
    nullish(nullish(step.delay, opt.stepDelay), Some(defaultStepDelay))[1]

C6_DelayFallsBackOnlyWhenUndefined ==
    \A r \in Runs : \A p \in Positions(r) :
        log[r][p][1] = "delay" =>
            log[r][p][3] = claimedDelay(steps[log[r][p][2]], options)

\* C7: whenever convertToGif has settled (resolved or rejected), the palette
\* file of that call does not exist.
C7_PaletteGoneWhenSettled ==
    \A r \in Runs :
        cv[r].promise \in {"resolved", "rejected"} => myPalette(r) \notin files

\* C8: the first pass is invoked with the max_colors of the requested tier and
\* the second pass with its dither: low 64 / sierra2_4a, medium 128 /
\* floyd_steinberg, high 256 / floyd_steinberg; medium when quality is omitted.
ClaimedTiers ==
    [low |-> <<64, "sierra2_4a">>,
     medium |-> <<128, "floyd_steinberg">>,
     high |-> <<256, "floyd_steinberg">>]

RequestedTier ==
    IF options.gif = Absent THEN "medium"
    ELSE IF options.gif[1].quality = Absent THEN "medium"
    ELSE options.gif[1].quality[1]

C8_TierParameters ==
    \A r \in Runs :
        /\ cv[r].p1 # "none" => cv[r].colors = ClaimedTiers[RequestedTier][1]
        /\ cv[r].p2 # "none" => cv[r].dither = ClaimedTiers[RequestedTier][2]

C8_Witness ==
    \E r \in Runs :
        /\ RequestedTier = "low"
        /\ cv[r].p2 = "ended"
        /\ cv[r].colors = 64

\* C9: the second pass exists only once the first pass has ended
\* successfully; it is never started when the first pass failed, and the two
\* passes never run at the same time.
C9_PassTwoAfterPassOne ==
    \A r \in Runs :
        /\ cv[r].p2 # "none" => cv[r].p1 = "ended"
        /\ cv[r].p1 = "failed" => cv[r].p2 = "none"
        /\ ~(cv[r].p1 = "running" /\ cv[r].p2 = "running")

C9_Witness ==
    \E r, q \in Runs :
        /\ cv[r].p2 = "running"
        /\ cv[q].p1 = "failed"

\* C10: when a pass reports an error, convertToGif has rejected with that
\* pass's error, and the enclosing run, once it has ended, has status 'failed'
\* and has rejected with the same error.
C10_PassErrorRejectsRun ==
    \A r \in Runs :
        /\ cv[r].p1 = "failed" =>
              cv[r].promise = "rejected" /\ cv[r].err = FfmpegError("palettegen")
        /\ cv[r].p2 = "failed" =>
              cv[r].promise = "rejected" /\ cv[r].err = FfmpegError("paletteuse")
        /\ ((cv[r].p1 = "failed" \/ cv[r].p2 = "failed") /\ pc[r] = "done") =>
              /\ recordingInfo[r].status = "failed"
              /\ outcome[r] = "rejected"
              /\ thrown[r] = cv[r].err

C10_Witness ==
    \E r, q \in Runs :
        /\ cv[r].p2 = "failed" /\ pc[r] = "done" /\ outcome[r] = "rejected"
        /\ cv[q].p1 = "failed" /\ pc[q] = "done" /\ outcome[q] = "rejected"

\* C11: whenever convertToGif has resolved, it resolved with gifPath and a
\* non-empty file is at gifPath.
C11_ResolvedGifNonEmpty ==
    \A r \in Runs :
        cv[r].promise = "resolved" =>
            /\ cv[r].value = Some(myGif(r))
            /\ myGif(r) \in files
            /\ cv[r].gifSize = "data"

\* C12: a step whose action kind has no case issues no page call and never
\* fails; a run over a flow with such a step between two valid steps that
\* resolves has executed every step, in order, and its status is 'completed'.
StepOks(r) == SelectSeq(log[r], LAMBDA e : e[1] = "stepOk")

C12_UnknownActionIsNoOp ==
    \A r \in Runs :
        /\ \A p \in Positions(r) :
              log[r][p][1] = "stepFail" => steps[log[r][p][2]].action \in Supported
        /\ (pc[r] = "step" /\ steps[idx[r]].action \notin Supported)
              => target[r] = 0
        /\ outcome[r] = "resolved" =>
              /\ recordingInfo[r].status = "completed"
              /\ Len(StepOks(r)) = Len(steps)
              /\ \A k \in 1..Len(steps) : StepOks(r)[k][2] = k

C12_Witness ==
    /\ outcome["r1"] = "resolved"
    /\ Len(steps) = 3
    /\ steps[1].action \in Supported
    /\ steps[2].action \notin Supported
    /\ steps[3].action \in Supported

\* C13: when a step fails, the error recordUserFlow rejects with is a
\* StepFailure carrying the failing step's action kind and the original
\* error's message.
StepFailure(action, message) ==
    [name |-> "StepFailure", message |-> message, action |-> action]

C13_StepFailureWrapsError ==
    \A r \in Runs : \A p \in Positions(r) :
        log[r][p][1] = "stepFail" =>
            \E original \in {DriverError("step"), NullPage} :
                thrown[r] = StepFailure(steps[log[r][p][2]].action, original.message)

\* C14: the values a Recording Session's status takes are 'recording' and
\* then at most one of 'completed' and 'failed'; a terminal status is never
\* replaced.
C14_TerminalStatusIsFinal ==
    \A r \in Runs :
        recordingInfo[r].trail \in
            {<<>>, <<"recording">>, <<"recording", "completed">>,
             <<"recording", "failed">>}

\* C15: a close() call that finishes has not raised and leaves the recorder
\* with no browser and no page; a close() call issues browser.close() only
\* when a browser is held, so a second call in a row issues none.
C15_CloseIsIdempotent ==
    [][/\ (closePc = "closing" /\ closePc' = "idle") => (browser' = 0 /\ page' = 0)
       /\ (closePc = "idle" /\ closePc' = "closing") => browser # 0]_vars

\* C16: with one run in flight, once a close() called during the run has
\* finished (the recording flag is down and no browser is held while the run
\* is still in flight), the run's Recording Session ends 'failed', never
\* 'completed'.
C16_CloseAbortsRun ==
    [][(/\ InFlight("r1") /\ HasSession("r1")
        /\ ~recording /\ closePc = "idle" /\ browser = 0
        /\ pc'["r1"] = "done")
          => recordingInfo'["r1"].status = "failed"]_vars

C18_ResolvedRunArtifacts ==
    \A r \in Runs :
        outcome[r] = "resolved" =>
            /\ myVideo(r) \in files /\ myGif(r) \in files
            /\ rawVideoOf(r) \notin files
            /\ myPalette(r) \notin files
            /\ recordingInfo[r].sizes /\ recordingInfo[r].ended

\* C19: when a run has rejected after its capture started, the capture has
\* been stopped and no video, raw capture, palette or gif of the run is on
\* disk.
CaptureStarted(r) == \E p \in Positions(r) : log[r][p][1] = "captureStart"
CaptureStopped(r) == \E p \in Positions(r) : log[r][p][1] = "captureStop"

C19_FailedRunCleansUp ==
    \A r \in Runs :
        (outcome[r] = "rejected" /\ CaptureStarted(r)) =>
            /\ CaptureStopped(r)
            /\ {myVideo(r), rawVideoOf(r), myPalette(r), myGif(r)} \cap files = {}

\* C20: when the handler of POST /:id/execute is over and it had created a
\* recorder, recorder.close() has been called and no browser is open.
C20_ExecuteReleasesBrowser ==
    (handler.pc \in {"finished", "crashed"} /\ handler.recorder) =>
        (handler.closeCalled /\ openBrowsers = {})

\* C21: the recording flag is true exactly when some run of recordUserFlow
\* that passed the initialization check has not settled yet.
C21_RecordingFlagTracksRuns ==
    recording = (\E r \in Runs : InFlight(r) /\ HasSession(r))

\* C22: two runs that are in flight at the same time never have the same
\* video path, gif path or palette path.
C22_PathsAreExclusive ==
    \A r, q \in Runs :
        (r # q /\ InFlight(r) /\ InFlight(q) /\ HasSession(r) /\ HasSession(q)) =>
            /\ myVideo(r) # myVideo(q)
            /\ myGif(r) # myGif(q)
            /\ myPalette(r) # myPalette(q)

\* C23: every Recording Session carries an identifier of its own, one that
\* uuidv4 has handed out; no two sessions share an identifier, whether the
\* runs overlap or the later one follows the earlier one's failure.
C23_SessionIdsAreFresh ==
    \A r \in Runs :
        HasSession(r) =>
            /\ recordingInfo[r].id \in 1..(nextId - 1)
            /\ \A q \in Runs \ {r} :
                  HasSession(q) => recordingInfo[q].id # recordingInfo[r].id

C23_Witness ==
    /\ recordingInfo["r1"].status = "failed"
    /\ pc["r1"] = "done"
    /\ HasSession("r2")
    /\ recordingInfo["r2"].id = 2

\* C24: in every run, the first step starts right after a settle delay of
\* 2000 ms that follows the base navigation, and capture is stopped right
\* after a settle delay of 2000 ms that follows the last step's inter-step
\* delay (or the first settle delay when the flow has no step).
C24_SettleDelaysNeverSkipped ==
    \A r \in Runs : \A p \in Positions(r) :
        /\ (log[r][p][1] = "stepStart" /\ log[r][p][2] = 1) =>
              /\ p >= 3
              /\ log[r][p - 1] = Ev("settle", 0, settleDelay)
              /\ log[r][p - 2][1] = "goto"
        /\ log[r][p][1] = "captureStop" =>
              /\ p >= 4
              /\ log[r][p - 1] = Ev("settle", 1, settleDelay)
              /\ IF Len(steps) = 0
                   THEN log[r][p - 2] = Ev("settle", 0, settleDelay)
                   ELSE /\ log[r][p - 2][1] = "delay"
                        /\ log[r][p - 2][2] = Len(steps)

C24_Witness ==
    /\ outcome["r1"] = "resolved"
    /\ Len(steps) = 2
    /\ \A i \in 1..2 : steps[i].delay = Some(0)

\* C26: a 'wait' step with a selector is issued with the bound
\* options.timeout, or 30000 ms when none is given; a 'wait' step without a
\* selector is issued with the duration given in value, whatever number it
\* is, and with 1000 ms only when value is absent.
claimedWaitMs(step) ==
    IF step.selector \notin {Absent, Some("")}
      THEN IF step.timeout = Absent THEN 30000 ELSE step.timeout[1]
      ELSE IF step.value = Absent THEN 1000 ELSE step.value[1]

C26_WaitDurations ==
    \A r \in Runs : \A p \in Positions(r) :
        (log[r][p][1] = "stepStart" /\ steps[log[r][p][2]].action = "wait") =>
            log[r][p][3] = claimedWaitMs(steps[log[r][p][2]])

\* C27: the first pass is built with the flow's fps, scale and quality where
\* the flow gives them and with 10, '800:-1' and the medium tier where it does
\* not; the second pass is built with the same fps, scale, start offset and
\* duration as the first.
Requested(name, default) ==
    IF options.gif = Absent THEN default
    ELSE IF Field(options.gif[1], name) = Absent THEN default
    ELSE options.gif[1][name][1]

C27_EncodingOptionsFieldByField ==
    \A r \in Runs :
        /\ cv[r].p1 # "none" =>
              /\ cv[r].args1[1].fps = Requested("fps", 10)
              /\ cv[r].args1[1].scale = Requested("scale", "800:-1")
              /\ cv[r].colors = ClaimedTiers[Requested("quality", "medium")][1]
              /\ cv[r].args1[1].seek =
                    (IF Requested("startTime", 0) > 0
                       THEN Some(Requested("startTime", 0)) ELSE Absent)
              /\ cv[r].args1[1].duration =
                    (IF Requested("duration", 0) > 0
                       THEN Some(Requested("duration", 0)) ELSE Absent)
        /\ cv[r].p2 # "none" =>
              /\ cv[r].args2 = cv[r].args1
              /\ cv[r].dither = ClaimedTiers[Requested("quality", "medium")][2]

C27_Witness ==
    /\ cv["r1"].p2 = "ended"
    /\ options.gif # Absent
    /\ options.gif[1].fps = Some(15)
    /\ options.gif[1].scale = Absent
    /\ options.gif[1].quality = Absent
    /\ options.gif[1].startTime = Some(2)
    /\ options.gif[1].duration = Some(3)
    /\ cv["r1"].args2 = Some([fps |-> 15, scale |-> "800:-1", seek |-> Some(2),
                              duration |-> Some(3)])

\* C30: a call of recordUserFlow that finds no page rejects with 'Browser not
\* initialized' in that very step, changes none of recordingId, recording,
\* browser and page, creates no session, and neither then nor later performs
\* a capture, a navigation, a step or a conversion.
C30_NoPageRejectsUntouched ==
    [][\A r \in Runs :
          /\ (pc[r] = "idle" /\ page = 0 /\ pc'[r] # "idle") =>
                /\ pc'[r] = "done"
                /\ outcome'[r] = "rejected"
                /\ thrown'[r] = NotInitialized
                /\ UNCHANGED <<recordingId, recording, browser, page>>
                /\ UNCHANGED <<openBrowsers, files, nextId>>
          /\ thrown'[r] = NotInitialized =>
                /\ log'[r] = <<>>
                /\ cv'[r] = NoCv
                /\ recordingInfo'[r] = NoInfo
                /\ idx'[r] = idx[r]]_vars

C30_Witness ==
    /\ thrown["r1"] = NotInitialized
    /\ outcome["r1"] = "rejected"
    /\ launched = 1
    /\ browser = 0
    /\ page = 0
    /\ ~recording

\* C29: when every ffmpeg command eventually emits 'end' or 'error', a pending
\* promise of convertToGif is eventually resolved or rejected.
C29_ConvertEventuallySettles ==
    \A r \in Runs :
        (cv[r].promise = "pending") ~> (cv[r].promise \in {"resolved", "rejected"})

\* C28: a recorder that has launched a browser uses the headless option it
\* was constructed with; without the option it uses the value of HEADLESS,
\* which is true when the variable is unset.
C28_HeadlessDefaultsToTrue ==
    launched > 0 =>
        config.headless =
            (IF config.option # Absent THEN config.option[1]
             ELSE IF config.HEADLESS = Absent THEN TRUE
             ELSE config.HEADLESS = Some("true"))

\* C25: a request is answered 400 unless every step with action click, type,
\* hover, select, check or uncheck has a non-empty selector; steps with action
\* wait, navigate or keypress and no selector never cause a 400; and every flow
\* that POST / or PUT /:id writes to flows.json has a non-empty selector on
\* each of its click, type, hover, select, check and uncheck steps.
ElementActions == {"click", "type", "hover", "select", "check", "uncheck"}
FreeActions == {"wait", "navigate", "keypress"}
HasLocator(step) == step.selector \notin {Absent, Some("")}
LocatorRule(stepList) ==
    \A k \in 1..Len(stepList) :
        stepList[k].action \in ElementActions => HasLocator(stepList[k])
Written(old, new) ==
    {new[k] : k \in {j \in 1..Len(new) : j > Len(old) \/ new[j] # old[j]}}

C25_ElementStepsNeedSelector ==
    [][api'.method \in {"POST", "PUT"} /\ api'.count # api.count =>
          /\ api'.status # 400 => LocatorRule(api'.body.steps)
          /\ (/\ api'.method = "POST" => api'.body.id # Absent
              /\ api'.body.steps # <<>>
              /\ \A k \in 1..Len(api'.body.steps) :
                    /\ api'.body.steps[k].action \in FreeActions
                    /\ api'.body.steps[k].selector = Absent)
                => api'.status # 400
          /\ \A f \in Written(api.flows, api'.flows) : LocatorRule(f.steps)]_vars

C25_Witness ==
    /\ api.method = "PUT"
    /\ api.status = 200
    /\ Len(api.flows) = 1
    /\ api.flows[1].steps = <<[action |-> "click", selector |-> Some("#a")],
                              [action |-> "wait", selector |-> Absent]>>

\* C36: a conversion asked for a quality other than low, medium and high runs
\* its first pass with 128 colors and its second pass with floyd_steinberg.
C36_UnknownQualityIsMedium ==
    \A r \in Runs :
        (options.gif # Absent /\ RequestedTier \notin {"low", "medium", "high"}) =>
            /\ cv[r].p1 # "none" => cv[r].colors = ClaimedTiers["medium"][1]
            /\ cv[r].p2 # "none" => cv[r].dither = ClaimedTiers["medium"][2]

\* C32: while neither initialize() nor close() is in progress, this.browser is
\* non-null exactly when this.page is non-null, so a recorder that reports
\* itself initialized passes the check of recordUserFlow.
C32_BrowserIffPage ==
    (initPc = "idle" /\ closePc = "idle") => ((browser # 0) <=> (page # 0))

\* C31: every open browser is the one this.browser refers to, so at most one
\* browser is open and none is open without being referenced.
C31_NoBrowserLeaked == openBrowsers \subseteq {browser}

\* C33: the ids of the stored flows are pairwise distinct after every request;
\* a POST whose body passes validation and whose id is already stored is
\* answered 409 and no POST with a stored id changes the store; a PUT that
\* stores a flow stores it under the id of the path.
DistinctIds(flowList) ==
    \A j, k \in 1..Len(flowList) : j # k => flowList[j].id # flowList[k].id
Answered == api'.count # api.count
HasId(flowList, id) == \E k \in 1..Len(flowList) : flowList[k].id = id

LocatorOrShapeValid(body) ==
    /\ body.steps # <<>>
    /\ \A k \in 1..Len(body.steps) :
          /\ body.steps[k].action \in ValidActions
          /\ body.steps[k].selector # Some("")
          /\ body.steps[k].action \in ElementActions => HasLocator(body.steps[k])

C34_ErrorsLeaveStoreUnchanged ==
    [][(Answered /\ api'.status \in {400, 404, 409})
          => /\ api'.flows = api.flows
             /\ api'.method = "EXECUTE"
                  => /\ UNCHANGED <<recorderVars, driverVars, lifeVars, handler, script>>
                     /\ ~handler'.recorder
                     /\ openBrowsers' = {}]_vars

C34_Witness ==
    /\ api.count = 2
    /\ api.method = "EXECUTE"
    /\ api.status = 404
    /\ api.param = "b"
    /\ Len(api.flows) = 1
    /\ api.flows[1].id = "a"

\* C35: in the flow runner, the flows are attempted one at a time and in list
\* order; when the process exits after the recorder was initialized, every
\* selected flow has been attempted and has its result, close() has been
\* called, and the exit code is 1 exactly when some flow failed.
C35_RunnerAttemptsAllAndReports ==
    /\ pc["r2"] # "idle" => pc["r1"] = "done"
    /\ (script.exit # Absent /\ script.initialized) =>
          /\ \A r \in callers : pc[r] = "done"
          /\ Len(script.results) = Cardinality(callers)
          /\ \A k \in 1..Len(script.results) :
                script.results[k] = (outcome[runOf(k)] = "resolved")
          /\ script.exit = Some(IF \E r \in callers : outcome[r] # "resolved"
                                  THEN 1 ELSE 0)

====
